---- MODULE Spec2Model ----
(***************************************************************************)
(* Process & Version Lifecycle Manager of the AI Vision launcher           *)
(* (src/main.js, class AIVisionLauncherApp) and the front-end              *)
(* VersionManagementOptimizer (src/assets/sounds/audio-manager.js).        *)
(*                                                                         *)
(* Every IPC handler is one action.  The handlers are `async`, but every   *)
(* external command is run with execSync and every file operation with a   *)
(* *Sync call, and each `await` waits on a promise that is already         *)
(* settled: a handler runs to completion before the event loop delivers    *)
(* the next IPC message.  External commands and file operations may fail;  *)
(* each failure the code catches is an input of the action.                *)
(***************************************************************************)
EXTENDS Integers, Sequences, FiniteSets, TLC

(* ------------------------------ bounds --------------------------------- *)

\* Revisions that exist on the remote; the local clone starts one short.
NumRevs == 3
\* Clock ticks of half a TTL each that the model lets pass.
MaxTicks == 3
\* Live history queries (runs of the try block of gitGetCommits) per run.
MaxQueries == 3
\* Install attempts per run.
MaxInstalls == 2
\* File-system calls that throw per run.
MaxFaults == 1
\* Entries per version list in a backend response.
MaxVersions == 1
\* Renderer clock ticks of half a cache lifetime each.
MaxFrontTicks == 3
\* Calls of init, restartBackendService and waitForBackendReady per run.
MaxTasks == 2
\* Largest maxRetries passed to a direct call of waitForBackendReady.
MaxRetries == 4

(* --------------------------- program constants ------------------------- *)

\* this.gitCacheTimeout = 60000
gitCacheTimeout == 60000
\* git log --oneline -100
LogLimit == 100
\* src/assets/sounds/audio-manager.js:472  this.cacheDuration = 300000
cacheDuration == 300000
\* src/main.js:238  async waitForBackendReady(maxRetries = 30, interval = 1000)
DefaultMaxRetries == 30
DefaultInterval == 1000

TickMs == gitCacheTimeout \div 2
StartTime == gitCacheTimeout

VARIABLES
    repo,               \* revisions present in the local object store
    head,               \* revision checked out in the ComfyUI working tree
    hookFile,           \* hook_breaker_ac10a0.py in the working tree
    gitCommitsCache,    \* this.gitCommitsCache
    gitCacheTimestamp,  \* this.gitCacheTimestamp
    now,                \* Date.now()
    queries,            \* live history queries issued so far
    call,               \* the last handler invocation: inputs, observations, result
    switchMark,         \* value of queries at the last successful switch
    pending,            \* the gitSwitchVersion call suspended at an await
    live,               \* the launcher's managed files: item -> content tag
    lastBackup,         \* this.lastBackupDir and the directory it names
    tempExtract,        \* whether ../temp_extract exists
    installs,           \* install attempts made so far
    faults,             \* file-system calls that have thrown so far
    icall,              \* the last installLauncherUpdate: inputs, observations, result
    versionCache,       \* VersionManagementOptimizer.versionCache
    versionCacheExpiry, \* VersionManagementOptimizer.versionCacheExpiry
    clock,              \* Date.now() in the renderer
    fcall,              \* the last fetchVersionData: inputs, observations, result
    app,                \* the launcher process: "launching", "up" or "quitting"
    backendProcess,     \* this.backendProcess: 0 (null) or the process it refers to
    spawned,            \* backend processes spawned so far (they are 1..spawned)
    signalled,          \* the spawned processes that were sent kill()
    tasks,              \* the pending and finished start / restart / wait calls
    scall               \* the last supervisor step: inputs and observations

gitVars == <<repo, head, hookFile, gitCommitsCache, gitCacheTimestamp, now,
             queries, call, switchMark>>

installVars == <<live, lastBackup, tempExtract, installs, faults, icall>>

frontVars == <<versionCache, versionCacheExpiry, clock, fcall>>

supVars == <<app, backendProcess, spawned, signalled, tasks, scall>>

raceVars == <<pending>>

vars == <<gitVars, raceVars, installVars, frontVars, supVars>>

(* ------------------------------ revisions ------------------------------ *)

Revs == 1..NumRevs
RemoteRevs == Revs
\* One identifier that resolves nowhere.
UnknownRev == NumRevs + 1

FullHash(r) == [kind |-> "full", rev |-> r]
ShortHash(r) == [kind |-> "short", rev |-> r]
NoId == [kind |-> "none", rev |-> 0]

\* What the UI may pass as versionId: a full or an abbreviated hash.
VersionIds == [kind : {"full", "short"}, rev : Revs \cup {UnknownRev}]

Min(a, b) == IF a < b THEN a ELSE b

\* git log from HEAD on a linear history: HEAD first, then its ancestors,
\* at most LogLimit of them.
GitLog(h) == [i \in 1..Min(h, LogLimit) |-> h - i + 1]

Null == [status |-> "none"]

(* ------------------------- gitGetCurrentCommit ------------------------- *)

gitGetCurrentCommit(h, ok) ==
    IF ok
    THEN [status |-> "success",
          commit_hash |-> FullHash(h),
          commit_short |-> ShortHash(h)]
    ELSE [status |-> "error", message |-> "current_commit_failed"]

(* ---------------------------- gitGetCommits ---------------------------- *)

\* Mutants of the validity test: the comparison inverted; the boundary
\* included; the force flag ignored.
CacheValidInverted(forceRefresh, cache, ts, t) ==
    /\ ~forceRefresh
    /\ cache # Null
    /\ (t - ts) > gitCacheTimeout

CacheValidInclusive(forceRefresh, cache, ts, t) ==
    /\ ~forceRefresh
    /\ cache # Null
    /\ (t - ts) <= gitCacheTimeout

CacheValidIgnoringForce(forceRefresh, cache, ts, t) ==
    /\ cache # Null
    /\ (t - ts) < gitCacheTimeout

\* if (!forceRefresh && this.gitCommitsCache && (now - ts) < timeout)
CacheValid(forceRefresh, cache, ts, t) ==
    /\ ~forceRefresh
    /\ cache # Null
    /\ (t - ts) < gitCacheTimeout

\* commits.map(... is_current: commit === currentCommit ...)
MarkCommits(log, currentCommit) ==
    [i \in DOMAIN log |->
        [commit |-> ShortHash(log[i]),
         is_current |-> (ShortHash(log[i]) = currentCommit)]]

\* The result assembled on a successful live query; captured names the
\* query that built the object (its identity).
FreshResult(h, q) ==
    LET currentCommit == ShortHash(h)
        commits == MarkCommits(GitLog(h), currentCommit)
    IN [status |-> "success",
        commits |-> commits,
        total |-> Len(commits),
        current_commit |-> currentCommit,
        cached |-> FALSE,
        captured |-> q]

\* return { ...this.gitCommitsCache, cached: true, warning: ... }
StaleResult(cache) ==
    ("warning" :> "may_be_stale") @@ [cache EXCEPT !.cached = TRUE]

HistoryError ==
    [status |-> "error", message |-> "history_failed", commits |-> <<>>]

\* Mutant: the catch block reports the failure even when a cache exists.
DegradedReadNoFallback(cache) == HistoryError

\* The catch block of gitGetCommits.
DegradedRead(cache) ==
    IF cache # Null THEN StaleResult(cache) ELSE HistoryError

\* call: the handler (op), its arguments (id, force), whether it issued a
\* live history query (queried) and whether that query failed (failed), the
\* commands it ran (steps, when traced) and what it returned (result).
NoCall ==
    [op |-> "none", id |-> NoId, force |-> FALSE,
     queried |-> FALSE, failed |-> FALSE,
     steps |-> <<>>, result |-> Null]

\* gitGetCommits(forceRefresh); gitOk: the three git commands of the try
\* block all succeed.
GitGetCommits(forceRefresh, gitOk) ==
    LET hit == CacheValid(forceRefresh, gitCommitsCache, gitCacheTimestamp, now)
        q == queries + 1
        fresh == FreshResult(head, q)
        result == IF hit THEN gitCommitsCache
                  ELSE IF gitOk THEN fresh
                  ELSE DegradedRead(gitCommitsCache)
    IN /\ hit \/ queries < MaxQueries
       /\ hit => gitOk
       /\ queries' = IF hit THEN queries ELSE q
       /\ gitCommitsCache' = IF ~hit /\ gitOk THEN fresh ELSE gitCommitsCache
       /\ gitCacheTimestamp' = IF ~hit /\ gitOk THEN now ELSE gitCacheTimestamp
       /\ call' = [NoCall EXCEPT !.op = "commits", !.force = forceRefresh,
                       !.queried = ~hit, !.failed = (~hit /\ ~gitOk),
                       !.result = result]
       /\ UNCHANGED <<repo, head, hookFile, now, switchMark>>

GetCommits == \E forceRefresh \in BOOLEAN, gitOk \in BOOLEAN :
                  GitGetCommits(forceRefresh, gitOk)

(* --------------------------- gitSwitchVersion -------------------------- *)

\* error.message of a failed execSync: "Command failed: <cmd> <arg>\n<stderr>".
ExecError(cmd, arg, stderr) == [cmd |-> cmd, arg |-> arg, stderr |-> stderr]
NoError == ExecError("none", NoId, "none")

\* git checkout <versionId> in a store holding the revisions `known`.  git
\* answers an identifier it cannot resolve with "pathspec ... did not
\* match"; a resolvable one may still fail (conflict, lock, timeout).
GitCheckout(versionId, known, envOk) ==
    IF versionId.rev \notin known
    THEN [ok |-> FALSE,
          err |-> ExecError("checkout", versionId, "pathspec_did_not_match")]
    ELSE IF ~envOk
    THEN [ok |-> FALSE, err |-> ExecError("checkout", versionId, "other")]
    ELSE [ok |-> TRUE, err |-> NoError]

\* Mutant: the test looks for a text git does not print.
IsNoMatchWrongText(err) == err.stderr = "unknown_revision"

\* error.message.includes('pathspec') && error.message.includes('did not match')
IsNoMatch(err) == err.stderr = "pathspec_did_not_match"

\* The message of the catch block; id is the identifier the text contains
\* (versionId in the rewritten text, the command's argument otherwise).
SwitchErrorMessage(versionId, err) ==
    IF IsNoMatch(err)
    THEN [kind |-> "unknown_revision", id |-> versionId]
    ELSE [kind |-> "switch_failed", id |-> err.arg]

\* Mutant: the hook writes the template whether or not the file exists.
PostVersionSwitchFixOverwrites(hook, writeOk) ==
    IF writeOk THEN "template" ELSE hook

\* postVersionSwitchFix: recreate hook_breaker_ac10a0.py when it is missing.
PostVersionSwitchFix(hook, writeOk) ==
    IF hook = "absent"
    THEN (IF writeOk THEN "template" ELSE "absent")
    ELSE hook

\* git clean -fd removes the untracked hook file.
GitClean(hook, ok) == IF ok THEN "absent" ELSE hook

\* git fetch --all brings the remote's revisions into the local store.
GitFetch(known, ok) == IF ok THEN known \cup RemoteRevs ELSE known

\* Mutant: the checkout leaves HEAD where it was.
HeadAfterCheckoutUnmoved(versionId, h, ok) == h

\* HEAD after git checkout <versionId>.
HeadAfterCheckout(versionId, h, ok) == IF ok THEN versionId.rev ELSE h

\* Mutant: the switch forgets to clear the cache.
InvalidateAfterSwitchForgotten(cache, ts) == [cache |-> cache, ts |-> ts]

\* this.gitCommitsCache = null; this.gitCacheTimestamp = 0 (after a switch)
InvalidateAfterSwitch(cache, ts) == [cache |-> Null, ts |-> 0]

Step(name, ok) == [step |-> name, ok |-> ok]

\* A switch in which the failure of any command aborts.
AbortsOnAnyFailure(name, ok) == ~ok

\* A switch that goes on after a failed checkout.
AbortsNever(name, ok) == FALSE

\* A switch that a failed hard reset or current-revision query ends too.
AbortsOnResetOrQuery(name, ok) == name \in {"checkout", "reset", "current"} /\ ~ok

\* The failure of which command ends the try block: reset, clean and fetch
\* have a try/catch of their own, the current-revision query returns its
\* error, the checkout has neither.
Aborts(name, ok) == name = "checkout" /\ ~ok

SwitchFaults ==
    [cur1 : BOOLEAN, reset : BOOLEAN, clean : BOOLEAN, fetch : BOOLEAN,
     checkout : BOOLEAN, fix : BOOLEAN, cur2 : BOOLEAN]

\* The state and result of gitSwitchVersion(versionId) under the command
\* outcomes f (TRUE: the command succeeds).
SwitchOutcome(versionId, f) ==
    LET oldCommit == gitGetCurrentCommit(head, f.cur1)
        hook1 == GitClean(hookFile, f.clean)
        repo1 == GitFetch(repo, f.fetch)
        co == GitCheckout(versionId, repo1, f.checkout)
        before == <<Step("current", f.cur1), Step("reset", f.reset),
                    Step("clean", f.clean), Step("fetch", f.fetch),
                    Step("checkout", co.ok)>>
        hook2 == PostVersionSwitchFix(hook1, f.fix)
        newHead == HeadAfterCheckout(versionId, head, co.ok)
        inv == InvalidateAfterSwitch(gitCommitsCache, gitCacheTimestamp)
    IN IF \A i \in DOMAIN before : ~Aborts(before[i].step, before[i].ok)
       THEN [head |-> newHead, repo |-> repo1, hook |-> hook2,
             cache |-> inv.cache, ts |-> inv.ts,
             steps |-> before \o <<Step("fix", hook1 # "absent" \/ f.fix),
                                   Step("invalidate", TRUE),
                                   Step("current", f.cur2)>>,
             result |-> [status |-> "success",
                         message |-> [kind |-> "switched", id |-> versionId],
                         old_version |-> oldCommit,
                         new_version |-> gitGetCurrentCommit(newHead, f.cur2)]]
       ELSE [head |-> newHead, repo |-> repo1, hook |-> hook1,
             cache |-> gitCommitsCache, ts |-> gitCacheTimestamp,
             steps |-> before,
             result |-> [status |-> "error",
                         message |-> SwitchErrorMessage(versionId, co.err)]]

GitSwitchVersion(versionId, f, traced) ==
    LET o == SwitchOutcome(versionId, f)
    IN /\ head' = o.head
       /\ repo' = o.repo
       /\ hookFile' = o.hook
       /\ gitCommitsCache' = o.cache
       /\ gitCacheTimestamp' = o.ts
       /\ switchMark' = IF o.result.status = "success" THEN queries
                        ELSE switchMark
       /\ call' = [NoCall EXCEPT !.op = "switch", !.id = versionId,
                       !.steps = IF traced THEN o.steps ELSE <<>>,
                       !.result = o.result]
       /\ UNCHANGED <<now, queries>>

\* ipcMain.handle('git-switch-version', ...) with the command outcomes
\* drawn from F.
SwitchVersionOver(F, traced) ==
    \E versionId \in VersionIds, f \in F :
        GitSwitchVersion(versionId, f, traced)

\* The outcomes that decide whether the switch succeeds (fetch, checkout);
\* the commands whose failure is only logged or only changes the result's
\* payload or the hook file (reset, clean, repair hook, the two
\* current-revision queries) succeed.
CacheFaults ==
    {f \in SwitchFaults : f.cur1 /\ f.reset /\ f.clean /\ f.fix /\ f.cur2}

SwitchVersion == SwitchVersionOver(CacheFaults, FALSE)

\* The outcomes of the commands whose failure is logged (clean, fetch,
\* repair hook) or returned in the payload (reset, the two current-revision
\* queries), each family varied with the checkout's.
TracedFaults ==
    {f \in SwitchFaults : f.cur1 /\ f.reset /\ f.cur2}
    \cup {f \in SwitchFaults : f.clean /\ f.fetch /\ f.fix}

\* The same handler with the order of its commands recorded.
SwitchVersionTraced == SwitchVersionOver(TracedFaults, TRUE)

\* ipcMain.handle('git-refresh-cache', ...)
RefreshCache ==
    /\ gitCommitsCache' = Null
    /\ gitCacheTimestamp' = 0
    /\ call' = [NoCall EXCEPT !.op = "refresh",
                    !.result = [status |-> "success", message |-> "cache_cleared"]]
    /\ UNCHANGED <<repo, head, hookFile, now, queries, switchMark>>

\* ipcMain.handle('git-get-current-commit', ...)
GetCurrentCommit ==
    \E ok \in BOOLEAN :
        /\ call' = [NoCall EXCEPT !.op = "current",
                        !.result = gitGetCurrentCommit(head, ok)]
        /\ UNCHANGED <<repo, head, hookFile, gitCommitsCache,
                       gitCacheTimestamp, now, queries, switchMark>>

Tick ==
    /\ now < StartTime + MaxTicks * TickMs
    /\ now' = now + TickMs
    /\ UNCHANGED <<repo, head, hookFile, gitCommitsCache, gitCacheTimestamp,
                   queries, call, switchMark>>

InitGit ==
    /\ repo = 1..(NumRevs - 1)
    /\ head = NumRevs - 1
    /\ hookFile = "original"
    /\ gitCommitsCache = Null
    /\ gitCacheTimestamp = 0
    /\ now = StartTime
    /\ queries = 0
    /\ call = NoCall
    /\ switchMark = 0

(* ------------- gitSwitchVersion, from one await to the next ------------ *)

\* gitSwitchVersion suspends at its three awaits (gitGetCurrentCommit,
\* postVersionSwitchFix, gitGetCurrentCommit); every command between two
\* awaits is an execSync.  pending is the suspended call: the segment it
\* resumes with (pc), its argument, the outcomes of its commands and the
\* two current-revision records.  gitGetCommits has no await.
AllOk ==
    [cur1 |-> TRUE, reset |-> TRUE, clean |-> TRUE, fetch |-> TRUE,
     checkout |-> TRUE, fix |-> TRUE, cur2 |-> TRUE]

NoPending ==
    [pc |-> "idle", id |-> NoId, f |-> AllOk, old |-> Null, new |-> Null]

\* Mutant: the cache is cleared when the switch begins.
ClearsCacheAtBegin(pc) == pc = "begin"

\* The segment that clears the cache: the one after postVersionSwitchFix.
ClearsCache(pc) == pc = "invalidate"

\* The cache after the segment pc of a switch.
CacheAfter(pc) ==
    IF ClearsCache(pc)
    THEN InvalidateAfterSwitch(gitCommitsCache, gitCacheTimestamp)
    ELSE [cache |-> gitCommitsCache, ts |-> gitCacheTimestamp]

\* Up to the first await: the current revision is recorded.
SwitchBegin ==
    /\ pending.pc = "idle"
    /\ \E versionId \in VersionIds, checkout \in BOOLEAN :
          /\ versionId.kind = "full"
          /\ pending' = [NoPending EXCEPT
                             !.pc = "commands", !.id = versionId,
                             !.f = [AllOk EXCEPT !.checkout = checkout],
                             !.old = gitGetCurrentCommit(head, TRUE)]
    /\ gitCommitsCache' = CacheAfter("begin").cache
    /\ gitCacheTimestamp' = CacheAfter("begin").ts
    /\ UNCHANGED <<repo, head, hookFile, now, queries, call, switchMark>>

\* reset, clean, fetch, checkout and the body of postVersionSwitchFix; a
\* failed checkout goes to the catch block, which returns.
SwitchCommands ==
    /\ pending.pc = "commands"
    /\ LET o == SwitchOutcome(pending.id, pending.f)
           ok == o.result.status = "success"
       IN /\ head' = o.head
          /\ repo' = o.repo
          /\ hookFile' = o.hook
          /\ switchMark' = IF ok THEN queries ELSE switchMark
          /\ pending' = IF ok THEN [pending EXCEPT !.pc = "invalidate"]
                         ELSE NoPending
          /\ call' = IF ok THEN call
                      ELSE [NoCall EXCEPT !.op = "switch", !.id = pending.id,
                                          !.result = o.result]
    /\ UNCHANGED <<gitCommitsCache, gitCacheTimestamp, now, queries>>

\* The cache is cleared and the current revision queried again.
SwitchInvalidate ==
    /\ pending.pc = "invalidate"
    /\ gitCommitsCache' = CacheAfter("invalidate").cache
    /\ gitCacheTimestamp' = CacheAfter("invalidate").ts
    /\ pending' = [pending EXCEPT
                       !.pc = "return",
                       !.new = gitGetCurrentCommit(head, pending.f.cur2)]
    /\ UNCHANGED <<repo, head, hookFile, now, queries, call, switchMark>>

\* The success result is returned.
SwitchReturn ==
    /\ pending.pc = "return"
    /\ call' = [NoCall EXCEPT
                    !.op = "switch", !.id = pending.id,
                    !.result = [status |-> "success",
                                message |-> [kind |-> "switched",
                                             id |-> pending.id],
                                old_version |-> pending.old,
                                new_version |-> pending.new]]
    /\ pending' = NoPending
    /\ UNCHANGED <<repo, head, hookFile, gitCommitsCache, gitCacheTimestamp,
                   now, queries, switchMark>>

\* gitGetCommits(true), let in at any await of a switch.
GetCommitsForced ==
    /\ \E gitOk \in BOOLEAN : GitGetCommits(TRUE, gitOk)
    /\ UNCHANGED pending

InitRace == pending = NoPending

(* ============================ UpdateInstaller ========================== *)

backupItems ==
    <<"main.js", "ai_vision_launcher.html", "package.json", "preload.js",
      "assets", "backend">>
keyFiles == <<"package.json", "main.js", "ai_vision_launcher.html">>
filesToUpdate ==
    <<"main.js", "ai_vision_launcher.html", "package.json", "preload.js">>
dirsToUpdate == <<"assets", "backend">>
\* fs.readdirSync(backupDir): the entries in name order.
DirOrder ==
    <<"ai_vision_launcher.html", "assets", "backend", "main.js",
      "package.json", "preload.js">>

Range(s) == {s[i] : i \in DOMAIN s}
Items == Range(backupItems)

\* A file tree is a function from items to content tags; 0: no such entry.
EmptyTree == [it \in Items |-> 0]

\* File operations; a directory is copied and removed as a whole.
CopyOp(it, content) == [kind |-> "copy", item |-> it, content |-> content]
RemoveOp(it) == [kind |-> "remove", item |-> it]

ApplyOp(fs, op) ==
    IF op.kind = "copy"
    THEN [fs EXCEPT ![op.item] = op.content]
    ELSE [fs EXCEPT ![op.item] = 0]

\* What a handler did, in order: the call, the tree it acted on ("live",
\* "backup", "temp", "zip") and the entry.
Ev(op, target, item) == [op |-> op, target |-> target, item |-> item]

\* The events of the first n operations of ops, on target.
OpEvents(ops, n, target) ==
    [i \in 1..n |-> Ev(ops[i].kind, target, ops[i].item)]

\* The tree after the first n operations of ops.
RECURSIVE Exec(_, _, _)
Exec(fs, ops, n) ==
    IF n = 0 THEN fs ELSE ApplyOp(Exec(fs, ops, n - 1), ops[n])

\* Concatenation of the sequences f(s[1]), f(s[2]), ...
FlatMap(s, f(_)) ==
    LET F[i \in 0..Len(s)] == IF i = 0 THEN <<>> ELSE F[i - 1] \o f(s[i])
    IN F[Len(s)]

(* ------------------------- createLauncherBackup ------------------------ *)

\* A backup that copies the files and leaves the directories out.
BackupOpsFilesOnly(fs) ==
    FlatMap(filesToUpdate,
            LAMBDA it : IF fs[it] # 0 THEN <<CopyOp(it, fs[it])>> ELSE <<>>)

\* for (const item of backupItems) if (fs.existsSync(sourcePath)) copySync
BackupOps(fs) ==
    FlatMap(backupItems,
            LAMBDA it : IF fs[it] # 0 THEN <<CopyOp(it, fs[it])>> ELSE <<>>)

NoBackup == [set |-> FALSE, exists |-> FALSE, tree |-> EmptyTree, attempt |-> 0]

\* createLauncherBackup with fault index into <<ensureDirSync>> \o copies:
\* the directory it filled and whether it returned.  this.lastBackupDir is
\* assigned only when every copy was made.
createLauncherBackup(fs, attempt, fault) ==
    LET ops == BackupOps(fs)
        copied == IF fault = 0 THEN Len(ops)
                  ELSE IF fault = 1 THEN 0 ELSE fault - 2
    IN [ok |-> fault = 0,
        dir |-> [set |-> TRUE, exists |-> TRUE,
                 tree |-> Exec(EmptyTree, ops, copied),
                 attempt |-> attempt],
        log |-> (IF fault = 1 THEN <<>> ELSE <<Ev("ensureDir", "backup", "")>>)
                \o OpEvents(ops, copied, "backup")
                \o (IF fault = 0 THEN <<Ev("lastBackupDir", "backup", "")>>
                    ELSE <<>>)]

BackupFaults(fs) == 0..(Len(BackupOps(fs)) + 1)

(* ------------------------ rollbackLauncherUpdate ----------------------- *)

\* A rollback that removes the live entry but does not copy the backup's.
RollbackOpsRemoveOnly(fs, tree) ==
    FlatMap(DirOrder,
            LAMBDA it : IF tree[it] # 0 /\ fs[it] # 0
                        THEN <<RemoveOp(it)>> ELSE <<>>)

\* A rollback that makes the live tree a mirror of the backup: it also
\* removes the live entries the backup does not have.
RollbackOpsMirror(fs, tree) ==
    FlatMap(DirOrder,
            LAMBDA it :
                (IF fs[it] # 0 THEN <<RemoveOp(it)>> ELSE <<>>)
                \o (IF tree[it] # 0 THEN <<CopyOp(it, tree[it])>> ELSE <<>>))

\* for (const item of items) { if exists(target) removeSync(target);
\*                             copySync(source, target) }
RollbackOps(fs, tree) ==
    FlatMap(DirOrder,
            LAMBDA it :
                IF tree[it] = 0 THEN <<>>
                ELSE (IF fs[it] # 0 THEN <<RemoveOp(it)>> ELSE <<>>)
                     \o <<CopyOp(it, tree[it])>>)

\* Fault indexes of a rollback: into its operations, or one past them for
\* the removal of the backup directory.
RollbackFaults(fs, dir) ==
    IF dir.exists THEN 0..(Len(RollbackOps(fs, dir.tree)) + 1) ELSE {0}

\* rollbackLauncherUpdate(backupDir): outcome "missing" (it throws before
\* touching anything), "done" or "failed" (an operation threw).
rollbackLauncherUpdate(fs, dir, fault) ==
    IF ~dir.exists
    THEN [outcome |-> "missing", live |-> fs, dir |-> dir, log |-> <<>>]
    ELSE LET ops == RollbackOps(fs, dir.tree)
             done == Min(fault - 1, Len(ops))
         IN IF fault = 0
            THEN [outcome |-> "done", live |-> Exec(fs, ops, Len(ops)),
                  dir |-> [dir EXCEPT !.exists = FALSE, !.tree = EmptyTree],
                  log |-> OpEvents(ops, Len(ops), "live")
                          \o <<Ev("remove", "backup", "")>>]
            ELSE [outcome |-> "failed",
                  live |-> Exec(fs, ops, done),
                  dir |-> dir,
                  log |-> OpEvents(ops, done, "live")]

(* ------------------------ installLauncherUpdate ------------------------ *)

\* A package: the files at the archive root (root), the files of its
\* subdirectory named launcher (launcher) and the files of a subdirectory
\* with any other name (other).
NoDir == [present |-> FALSE, files |-> {}]
Dir(files) == [present |-> TRUE, files |-> files]
Package(root, launcher, other) ==
    [root |-> root, launcher |-> launcher, other |-> other]

\* The files of the package's source root: the launcher subdirectory when
\* the archive has one, the archive root otherwise.
SourceFiles(pkg) ==
    IF pkg.launcher.present THEN pkg.launcher.files ELSE pkg.root

\* keyFiles.filter(file => !fs.existsSync(path.join(sourceDir, file)))
MissingFiles(pkg) ==
    SelectSeq(keyFiles, LAMBDA f : f \notin SourceFiles(pkg))

\* Steps 4 and 5: copy the files the package has; replace the directories
\* it has (remove the live one when it exists, then copy).
UpdateOps(fs, pkg, content) ==
    FlatMap(filesToUpdate,
            LAMBDA it : IF it \in SourceFiles(pkg)
                        THEN <<CopyOp(it, content)>> ELSE <<>>)
    \o FlatMap(dirsToUpdate,
               LAMBDA it :
                   IF it \notin SourceFiles(pkg) THEN <<>>
                   ELSE (IF fs[it] # 0 THEN <<RemoveOp(it)>> ELSE <<>>)
                        \o <<CopyOp(it, content)>>)

\* Where an install attempt may throw: [phase, at].  extract 1: the archive
\* cannot be read; 2: the old temp_extract cannot be removed; 3: unpacking
\* fails.  cleanup 1: temp_extract; 2: the archive.
NoFault == [phase |-> "none", at |-> 0]
Fault(phase, at) == [phase |-> phase, at |-> at]

InstallFaults(fs, temp, pkg, content) ==
    {NoFault}
    \cup {Fault("backup", i) : i \in BackupFaults(fs) \ {0}}
    \cup {Fault("extract", i) : i \in (IF temp THEN {1, 2, 3} ELSE {1, 3})}
    \cup (IF MissingFiles(pkg) # <<>> THEN {}
          ELSE {Fault("apply", i) : i \in 1..Len(UpdateOps(fs, pkg, content))}
               \cup {Fault("cleanup", i) : i \in {1, 2}})

\* The try block of installLauncherUpdate: the phase it threw in ("none":
\* it returned), the error, and the files it left.
InstallTry(fs, backup, temp, pkg, content, attempt, fault) ==
    LET b == createLauncherBackup(fs, attempt,
                                  IF fault.phase = "backup" THEN fault.at ELSE 0)
        missing == MissingFiles(pkg)
        ops == UpdateOps(fs, pkg, content)
        base == [threw |-> "none", error |-> [kind |-> "none", missing |-> <<>>],
                 live |-> fs, backup |-> b.dir, temp |-> TRUE,
                 zipRemoved |-> FALSE, applied |-> 0, log |-> b.log]
        extracted == b.log
                     \o (IF temp THEN <<Ev("remove", "temp", "")>> ELSE <<>>)
                     \o <<Ev("extractAllTo", "temp", "")>>
        validated == extracted \o <<Ev("validated", "temp", "")>>
        applied == validated \o OpEvents(ops, Len(ops), "live")
    IN IF ~b.ok
       THEN [base EXCEPT !.threw = "backup", !.error.kind = "io",
                         !.backup = backup, !.temp = temp]
       ELSE IF fault.phase = "extract"
       THEN [base EXCEPT !.threw = "extract", !.error.kind = "extract",
                         !.temp = IF fault.at = 3 THEN TRUE ELSE temp,
                         !.log = IF fault.at = 3 THEN extracted ELSE b.log]
       ELSE IF missing # <<>>
       THEN [base EXCEPT !.threw = "validate", !.error.kind = "malformed",
                         !.error.missing = missing,
                         !.log = extracted \o <<Ev("rejected", "temp", "")>>]
       ELSE IF fault.phase = "apply"
       THEN [base EXCEPT !.threw = "apply", !.error.kind = "io",
                         !.live = Exec(fs, ops, fault.at - 1),
                         !.applied = fault.at - 1,
                         !.log = validated
                                 \o OpEvents(ops, fault.at - 1, "live")]
       ELSE IF fault.phase = "cleanup"
       THEN [base EXCEPT !.threw = "cleanup", !.error.kind = "io",
                         !.live = Exec(fs, ops, Len(ops)),
                         !.applied = Len(ops),
                         !.temp = (fault.at = 1),
                         !.zipRemoved = FALSE,
                         !.log = applied
                                 \o (IF fault.at = 1 THEN <<>>
                                     ELSE <<Ev("remove", "temp", "")>>)]
       ELSE [base EXCEPT !.live = Exec(fs, ops, Len(ops)),
                         !.applied = Len(ops),
                         !.temp = FALSE, !.zipRemoved = TRUE,
                         !.log = applied \o <<Ev("remove", "temp", ""),
                                              Ev("remove", "zip", "")>>]

\* The catch block: if (this.lastBackupDir) rollback(this.lastBackupDir);
\* a rollback failure is logged.
InstallCatch(t, rbFault) ==
    IF t.backup.set
    THEN rollbackLauncherUpdate(t.live, t.backup, rbFault)
    ELSE [outcome |-> "skipped", live |-> t.live, dir |-> t.backup,
          log |-> <<>>]

NoInstall ==
    [op |-> "none", pkg |-> Package({}, NoDir, NoDir),
     attempt |-> 0, liveBefore |-> EmptyTree, captured |-> EmptyTree,
     threw |-> "none", applied |-> 0, rollback |-> "none",
     restoredFrom |-> 0, zipRemoved |-> FALSE,
     liveTried |-> EmptyTree, backupTried |-> NoBackup, log |-> <<>>,
     result |-> [success |-> FALSE,
                 error |-> [kind |-> "none", missing |-> <<>>]]]

installLauncherUpdate(pkg, fault, rbFault) ==
    LET attempt == installs + 1
        content == attempt + 1
        t == InstallTry(live, lastBackup, tempExtract, pkg, content, attempt, fault)
        c == IF t.threw = "none"
             THEN [outcome |-> "none", live |-> t.live, dir |-> t.backup,
                   log |-> <<>>]
             ELSE InstallCatch(t, rbFault)
    IN /\ live' = c.live
       /\ lastBackup' = c.dir
       /\ tempExtract' = t.temp
       /\ installs' = attempt
       /\ icall' = [NoInstall EXCEPT
                       !.op = "install", !.pkg = pkg, !.attempt = attempt,
                       !.liveBefore = live,
                       !.captured = IF t.threw = "backup" THEN EmptyTree
                                    ELSE t.backup.tree,
                       !.threw = t.threw, !.applied = t.applied,
                       !.rollback = c.outcome,
                       !.restoredFrom = IF c.outcome \in {"done", "failed"}
                                        THEN t.backup.attempt ELSE 0,
                       !.zipRemoved = t.zipRemoved,
                       !.liveTried = t.live,
                       !.backupTried = t.backup,
                       !.log = IF t.threw = "none" THEN t.log
                               ELSE t.log \o <<Ev("catch", "", "")>> \o c.log,
                       !.result = IF t.threw = "none"
                                  THEN [success |-> TRUE, message |-> "installed"]
                                  ELSE [success |-> FALSE, error |-> t.error]]

\* The packages offered to install: complete, without the optional files,
\* or lacking a required file at the archive root; complete in a launcher
\* subdirectory; complete in a single subdirectory with another name (so
\* with nothing at the source root).
FileSets == {Items, Range(keyFiles), Items \ {"main.js"}}

Packages ==
    {Package(fs, NoDir, NoDir) : fs \in FileSets}
    \cup {Package({}, Dir(Items), NoDir), Package({}, NoDir, Dir(Items))}

\* The number of calls that throw in an attempt.
FaultCost(fault, rbFault) ==
    (IF fault = NoFault THEN 0 ELSE 1) + (IF rbFault = 0 THEN 0 ELSE 1)

\* ipcMain.handle('install-launcher-update', ...)
InstallLauncherUpdate ==
    /\ installs < MaxInstalls
    /\ \E pkg \in Packages :
         \E fault \in InstallFaults(live, tempExtract, pkg, installs + 2) :
           LET t == InstallTry(live, lastBackup, tempExtract, pkg,
                               installs + 2, installs + 1, fault)
           IN \E rbFault \in (IF t.threw # "none" /\ t.backup.set
                              THEN RollbackFaults(t.live, t.backup) ELSE {0}) :
                 /\ faults + FaultCost(fault, rbFault) <= MaxFaults
                 /\ faults' = faults + FaultCost(fault, rbFault)
                 /\ installLauncherUpdate(pkg, fault, rbFault)

\* The launcher runs from a complete installation; the assets directory is
\* optional.
InitInstall ==
    /\ live \in {[it \in Items |-> 1],
                 [it \in Items |-> IF it = "assets" THEN 0 ELSE 1]}
    /\ lastBackup = NoBackup
    /\ tempExtract = FALSE
    /\ installs = 0
    /\ faults = 0
    /\ icall = NoInstall


(* ===================== VersionManagementOptimizer ====================== *)

FrontTickMs == cacheDuration \div 2

\* Commit identifiers a backend response may carry.
Commits == {"c1", "c2"}
Undefined == "undefined"

\* A version as the backend lists it.
RawVersions == [id : Commits, commit : Commits, author : {"author"}]

SeqsUpTo(S, n) == UNION {[1..k -> S] : k \in 0..n}

\* The body of a /comfyui/versions response.
RawData ==
    [status : {"success"},
     stable : SeqsUpTo(RawVersions, MaxVersions),
     development : SeqsUpTo(RawVersions, MaxVersions),
     current_commit : Commits \cup {Undefined}]
    \cup {[status |-> "error", stable |-> <<>>, development |-> <<>>,
           current_commit |-> Undefined]}

\* fetch(): the request failed or was answered !ok, or a body came back.
Responses ==
    {[ok |-> FALSE, body |-> [status |-> "error", stable |-> <<>>,
                              development |-> <<>>,
                              current_commit |-> Undefined]]}
    \cup {[ok |-> TRUE, body |-> r] : r \in RawData}

\* version.id === currentCommit || version.commit === currentCommit
IsCurrent(version, currentCommit) ==
    version.id = currentCommit \/ version.commit = currentCommit

Mark(list, currentCommit, isStable) ==
    [i \in DOMAIN list |->
        [id |-> list[i].id, commit |-> list[i].commit,
         author |-> list[i].author,
         current |-> IsCurrent(list[i], currentCommit),
         isStable |-> isStable]]

SyntheticCurrent(currentCommit) ==
    [id |-> currentCommit, commit |-> currentCommit, author |-> "Current",
     current |-> TRUE, isStable |-> FALSE]

markCurrentVersion(data) ==
    LET currentCommit == data.current_commit
        stable == Mark(data.stable, currentCommit, TRUE)
        development == Mark(data.development, currentCommit, FALSE)
        foundCurrent ==
            \/ \E i \in DOMAIN stable : stable[i].current
            \/ \E i \in DOMAIN development : development[i].current
    IN [data EXCEPT
           !.stable = stable,
           !.development =
               IF ~foundCurrent /\ currentCommit # "unknown"
               THEN <<SyntheticCurrent(currentCommit)>> \o development
               ELSE development]

\* processVersionData for a body it accepts (status 'success').
processVersionData(rawData, t) ==
    markCurrentVersion(
        [stable |-> rawData.stable,
         development |-> rawData.development,
         current_commit |-> IF rawData.current_commit = Undefined
                            THEN "unknown" ELSE rawData.current_commit,
         last_updated |-> t,
         is_fallback |-> FALSE])

getFallbackVersionData ==
    [stable |-> <<[id |-> "fallback-stable", commit |-> Undefined,
                   author |-> "System", current |-> FALSE, isStable |-> TRUE]>>,
     development |-> <<[id |-> "fallback-dev", commit |-> "current",
                        author |-> "Current", current |-> TRUE,
                        isStable |-> FALSE]>>,
     current_commit |-> "current",
     last_updated |-> 0,
     is_fallback |-> TRUE]

\* isValidCache() of an optimizer whose cache fields are cache and expiry.
ValidCache(cache, expiry) == cache # Null /\ expiry # 0 /\ clock < expiry

isValidCache == ValidCache(versionCache, versionCacheExpiry)

NoFetch ==
    [op |-> "none", force |-> FALSE, hadCache |-> FALSE, fetched |-> FALSE,
     processed |-> FALSE, result |-> Null]

\* fetchVersionData(forceRefresh) of an optimizer whose cache fields are
\* cache and expiry, with the backend's answer as an input: the fields
\* after the call, whether a request was sent (fetched) and its answer
\* stored (processed), and the data returned.
FetchOutcome(cache, expiry, forceRefresh, response) ==
    LET shouldForceRefresh == forceRefresh \/ cache = Null
        hit == ~shouldForceRefresh /\ ValidCache(cache, expiry)
        accepted == response.ok /\ response.body.status = "success"
        processedData == processVersionData(response.body, clock)
    IN [hit |-> hit,
        cache |-> IF ~hit /\ accepted THEN processedData ELSE cache,
        expiry |-> IF ~hit /\ accepted THEN clock + cacheDuration ELSE expiry,
        fetched |-> ~hit,
        processed |-> ~hit /\ accepted,
        result |-> IF hit THEN cache
                   ELSE IF accepted THEN processedData
                   ELSE IF cache # Null THEN cache
                   ELSE getFallbackVersionData]

\* fetchVersionData(forceRefresh) with the backend's answer as an input.
fetchVersionData(forceRefresh, response) ==
    LET o == FetchOutcome(versionCache, versionCacheExpiry, forceRefresh,
                          response)
    IN /\ o.hit => ~response.ok        \* a cache hit sends no request
       /\ versionCache' = o.cache
       /\ versionCacheExpiry' = o.expiry
       /\ fcall' = [op |-> "fetch", force |-> forceRefresh,
                    hadCache |-> versionCache # Null, fetched |-> o.fetched,
                    processed |-> o.processed, result |-> o.result]
       /\ UNCHANGED clock

\* The answer to POST /comfyui/switch-version: a body with status success,
\* a body with another status, or a response that is not ok.
SwitchResponses == {"success", "error", "not_ok"}

\* Mutant: a successful switch keeps the cached version list.
ClearVersionCacheForgotten(cache, expiry) == [cache |-> cache, expiry |-> expiry]

\* this.versionCache = null; this.versionCacheExpiry = 0
ClearVersionCache(cache, expiry) == [cache |-> Null, expiry |-> 0]

\* switchToVersion(versionId, displayId): after a confirmed switch that
\* the backend answers with success, the cache is cleared and
\* refreshVersionDisplay calls fetchVersionData(true).
switchToVersion(confirmed, switched, response) ==
    IF confirmed /\ switched = "success"
    THEN LET c == ClearVersionCache(versionCache, versionCacheExpiry)
             o == FetchOutcome(c.cache, c.expiry, TRUE, response)
         IN /\ versionCache' = o.cache
            /\ versionCacheExpiry' = o.expiry
            /\ fcall' = [op |-> "switch", force |-> TRUE,
                         hadCache |-> versionCache # Null,
                         fetched |-> o.fetched, processed |-> o.processed,
                         result |-> o.result]
            /\ UNCHANGED clock
    ELSE /\ fcall' = [NoFetch EXCEPT !.op = "switch_failed",
                                     !.hadCache = versionCache # Null]
         /\ UNCHANGED <<versionCache, versionCacheExpiry, clock>>

SwitchToVersion ==
    \E confirmed \in BOOLEAN, switched \in SwitchResponses,
       response \in Responses :
        /\ (confirmed /\ switched = "success") \/ ~response.ok
        /\ switchToVersion(confirmed, switched, response)

FetchVersionData ==
    \E forceRefresh \in BOOLEAN, response \in Responses :
        fetchVersionData(forceRefresh, response)

FrontTick ==
    /\ clock < StartTime + MaxFrontTicks * FrontTickMs
    /\ clock' = clock + FrontTickMs
    /\ UNCHANGED <<versionCache, versionCacheExpiry, fcall>>

InitFront ==
    /\ versionCache = Null
    /\ versionCacheExpiry = 0
    /\ clock = StartTime
    /\ fcall = NoFetch

(* ========================== ProcessSupervisor ========================== *)

\* findPythonExecutable: the bundled candidates in order, then the system
\* interpreters.
candidates ==
    <<"venv/Scripts/python.exe", "venv/python.exe", "venv/bin/python",
      "python/python.exe">>
systemPythons == <<"python", "python3">>
NoPython == "null"

\* The first element of s that is in S.
FirstIn(s, S) ==
    IF \E i \in DOMAIN s : s[i] \in S
    THEN s[CHOOSE i \in DOMAIN s :
               s[i] \in S /\ \A j \in 1..(i - 1) : s[j] \notin S]
    ELSE NoPython

\* A lookup that asks for the system interpreters first.
findPythonSystemFirst(exists, runs) ==
    IF FirstIn(systemPythons, runs) # NoPython
    THEN FirstIn(systemPythons, runs)
    ELSE FirstIn(candidates, exists)

\* exists: the candidate paths that exist; runs: the system interpreters
\* whose `--version` runs.
findPythonExecutable(exists, runs) ==
    IF FirstIn(candidates, exists) # NoPython
    THEN FirstIn(candidates, exists)
    ELSE FirstIn(systemPythons, runs)

\* What a start finds on the machine: interpreters and backend script.
Envs ==
    [exists : {{}, {"venv/Scripts/python.exe"}, {"python/python.exe"},
               {"venv/bin/python", "python/python.exe"}},
     runs : {{}, {"python3"}, {"python", "python3"}},
     script : BOOLEAN]

NoEnv == [exists |-> {}, runs |-> {}, script |-> FALSE]

\* axios.get(BACKEND_URL/health, {timeout: 900}) resolves on a 2xx answer
\* and rejects otherwise.
ProbeOutcomes == {"ok", "refused", "timeout", "status"}

\* The delay of the timer between two probes.
TimerDelayNone(interval) == 0
TimerDelay(interval) == interval

\* A call of waitForBackendReady on behalf of kind ("init", "restart" or a
\* direct "wait"): pc "probing" (a request is out), "sleeping" (the timer
\* is set) or "done".
Task(kind, maxRetries, interval) ==
    [kind |-> kind, maxRetries |-> maxRetries, interval |-> interval,
     pc |-> "done", i |-> 0, probes |-> 0, gapOk |-> TRUE,
     answered |-> FALSE, result |-> "ready"]

\* The loop is entered, and the first request sent, when maxRetries > 0.
waitForBackendReady(kind, maxRetries, interval) ==
    IF 0 < maxRetries
    THEN [Task(kind, maxRetries, interval) EXCEPT
             !.pc = "probing", !.probes = 1, !.result = "pending"]
    ELSE Task(kind, maxRetries, interval)

Failed(kind, error) ==
    [Task(kind, DefaultMaxRetries, DefaultInterval) EXCEPT !.result = error]

NoStep ==
    [op |-> "none", task |-> 0, env |-> NoEnv, python |-> NoPython,
     outcome |-> "none", steps |-> <<>>]

\* The synchronous part of startBackendService: up to the first request of
\* waitForBackendReady.
startBackendService(kind, env) ==
    LET pythonPath == findPythonExecutable(env.exists, env.runs)
    IN IF pythonPath = NoPython
       THEN [spawn |-> FALSE, python |-> pythonPath,
             task |-> Failed(kind, "runtime_not_found"), steps |-> <<"find">>]
       ELSE IF ~env.script
       THEN [spawn |-> FALSE, python |-> pythonPath,
             task |-> Failed(kind, "script_not_found"),
             steps |-> <<"find", "script">>]
       ELSE [spawn |-> TRUE, python |-> pythonPath,
             task |-> waitForBackendReady(kind, DefaultMaxRetries,
                                          DefaultInterval),
             steps |-> <<"find", "script", "spawn", "probe">>]

\* A restart that leaves the old backend alone.
StopBackendSkipped(proc, sig) ==
    [signalled |-> sig, steps |-> <<>>]

\* A restart that discards the handle without kill().
StopBackendNoKill(proc, sig) ==
    [signalled |-> sig, steps |-> IF proc # 0 THEN <<"discard">> ELSE <<>>]

\* if (this.backendProcess) { this.backendProcess.kill();
\*                            this.backendProcess = null }
StopBackend(proc, sig) ==
    IF proc # 0
    THEN [signalled |-> sig \cup {proc}, steps |-> <<"kill", "discard">>]
    ELSE [signalled |-> sig, steps |-> <<>>]

\* init(): the window and the tray are created, then the backend is
\* started; a failure ends in app.quit().
AppInit ==
    /\ app = "launching"
    /\ \E env \in Envs :
         LET st == startBackendService("init", env)
         IN /\ app' = IF st.spawn THEN "up" ELSE "quitting"
            /\ spawned' = IF st.spawn THEN spawned + 1 ELSE spawned
            /\ backendProcess' = IF st.spawn THEN spawned + 1 ELSE backendProcess
            /\ tasks' = Append(tasks, st.task)
            /\ scall' = [NoStep EXCEPT !.op = "init", !.task = Len(tasks) + 1,
                             !.env = env, !.python = st.python,
                             !.outcome = st.task.result, !.steps = st.steps]
            /\ UNCHANGED signalled

\* The tray's restart command: restartBackendService up to the first
\* request of the new readiness wait.
RestartBackendService ==
    /\ app = "up"
    /\ Len(tasks) < MaxTasks
    /\ \E env \in Envs :
         LET st == startBackendService("restart", env)
             stop == StopBackend(backendProcess, signalled)
         IN /\ signalled' = stop.signalled
            /\ spawned' = IF st.spawn THEN spawned + 1 ELSE spawned
            /\ backendProcess' = IF st.spawn THEN spawned + 1 ELSE 0
            /\ tasks' = Append(tasks, st.task)
            /\ scall' = [NoStep EXCEPT !.op = "restart", !.task = Len(tasks) + 1,
                             !.env = env, !.python = st.python,
                             !.outcome = st.task.result,
                             !.steps = stop.steps \o st.steps]
            /\ UNCHANGED app

\* The answer to the request of task k arrives.
ProbeResult(k, outcome) ==
    LET t == tasks[k]
        last == t.i = t.maxRetries - 1
    IN /\ t.pc = "probing"
       /\ tasks' = [tasks EXCEPT ![k] =
                       IF outcome = "ok"
                       THEN [t EXCEPT !.pc = "done", !.result = "ready",
                                      !.answered = TRUE]
                       ELSE IF last
                       THEN [t EXCEPT !.pc = "done", !.result = "backend_timeout"]
                       ELSE [t EXCEPT !.pc = "sleeping"]]
       /\ app' = IF t.kind = "init" /\ outcome # "ok" /\ last
                 THEN "quitting" ELSE app
       /\ scall' = [NoStep EXCEPT !.op = "probe", !.task = k,
                        !.outcome = outcome]
       /\ UNCHANGED <<backendProcess, spawned, signalled>>

\* The timer of task k fires: the next iteration sends its request.
Wake(k) ==
    LET t == tasks[k]
    IN /\ t.pc = "sleeping"
       /\ tasks' = [tasks EXCEPT ![k] =
                       [t EXCEPT !.pc = "probing", !.i = t.i + 1,
                                 !.probes = t.probes + 1,
                                 !.gapOk = t.gapOk
                                     /\ t.interval <= TimerDelay(t.interval)]]
       /\ scall' = [NoStep EXCEPT !.op = "wake", !.task = k]
       /\ UNCHANGED <<app, backendProcess, spawned, signalled>>

WaitStep ==
    /\ app \notin {"quitting", "exited"}
    /\ \E k \in DOMAIN tasks :
          \/ \E outcome \in ProbeOutcomes : ProbeResult(k, outcome)
          \/ Wake(k)

\* A direct call waitForBackendReady(maxRetries, interval) while a spawned
\* backend is referenced.
CallWaitForBackendReady ==
    /\ app = "up"
    /\ Len(tasks) < MaxTasks
    /\ \A k \in DOMAIN tasks : tasks[k].pc = "done"
    /\ \E maxRetries \in 0..MaxRetries,
          interval \in {DefaultInterval, DefaultInterval \div 2} :
         /\ tasks' = Append(tasks, waitForBackendReady("wait", maxRetries, interval))
         /\ scall' = [NoStep EXCEPT !.op = "wait", !.task = Len(tasks) + 1,
                          !.outcome = IF maxRetries = 0 THEN "ready" ELSE "pending"]
    /\ UNCHANGED <<app, backendProcess, spawned, signalled>>

\* The launcher process ends (app.quit() or app.exit()) on the path op.
Exit(op, kill) ==
    /\ app' = "exited"
    /\ signalled' = IF kill /\ backendProcess # 0
                     THEN signalled \cup {backendProcess} ELSE signalled
    /\ scall' = [NoStep EXCEPT !.op = op,
                     !.steps = IF kill /\ backendProcess # 0
                               THEN <<"kill", "exit">> ELSE <<"exit">>]
    /\ UNCHANGED <<backendProcess, spawned, tasks>>

\* IPC is set up when the start of init() has returned.
IpcReady ==
    /\ app = "up"
    /\ tasks # <<>>
    /\ tasks[1].pc = "done"
    /\ tasks[1].result = "ready"

\* quit(): the tray's quit command, or the last window closed.
Quit == app = "up" /\ Exit("quit", TRUE)

\* restartApplication(): kill, relaunch, exit.
RestartApplication == app = "up" /\ Exit("restartApplication", TRUE)

\* ipcMain.handle('restart-launcher'): relaunch and exit.
RestartLauncher == IpcReady /\ Exit("restartLauncher", FALSE)

\* The catch block of init(): an error box, then app.quit().
InitFailed == app = "quitting" /\ Exit("initFailed", FALSE)

\* process.on('uncaughtException'): an error box, then app.quit().
UncaughtException ==
    app \in {"up", "quitting"} /\ Exit("uncaughtException", FALSE)

\* The launcher process has been created; init() has not run.
InitSupervisor ==
    /\ app = "launching"
    /\ backendProcess = 0
    /\ spawned = 0
    /\ signalled = {}
    /\ tasks = <<>>
    /\ scall = NoStep

\* startBackendService has spawned the backend and is about to wait.
InitWait ==
    /\ app = "up"
    /\ backendProcess = 1
    /\ spawned = 1
    /\ signalled = {}
    /\ tasks = <<>>
    /\ scall = NoStep

(* ---------------------------- specifications --------------------------- *)

Init == InitGit /\ InitRace /\ InitInstall /\ InitFront /\ InitSupervisor

\* The version controller and its cache.
NextGit ==
    \/ GetCommits
    \/ SwitchVersion
    \/ RefreshCache
    \/ GetCurrentCommit
    \/ Tick

Next == NextGit /\ UNCHANGED <<raceVars, installVars, frontVars, supVars>>

Spec == Init /\ [][Next]_vars

\* The version switch, command by command.
NextSwitch ==
    SwitchVersionTraced /\ UNCHANGED <<raceVars, installVars, frontVars, supVars>>

SpecSwitch == Init /\ [][NextSwitch]_vars

\* The switch and forced history queries, interleaved at every await of
\* the switch.
NextRace ==
    (SwitchBegin \/ SwitchCommands \/ SwitchInvalidate \/ SwitchReturn
        \/ GetCommitsForced)
    /\ UNCHANGED <<installVars, frontVars, supVars>>

\* The continuation of a suspended switch is a microtask of a settled
\* promise: the event loop runs it.
RaceContinue ==
    (SwitchCommands \/ SwitchInvalidate \/ SwitchReturn)
    /\ UNCHANGED <<installVars, frontVars, supVars>>

SpecRace == Init /\ [][NextRace]_vars /\ WF_vars(RaceContinue)

\* The update installer.
NextInstall ==
    InstallLauncherUpdate /\ UNCHANGED <<raceVars, gitVars, frontVars, supVars>>

SpecInstall == Init /\ [][NextInstall]_vars

\* The renderer's version list.
NextFront ==
    (FetchVersionData \/ SwitchToVersion \/ FrontTick)
    /\ UNCHANGED <<raceVars, gitVars, installVars, supVars>>

SpecFront == Init /\ [][NextFront]_vars

\* The backend's supervisor: launch, restart command, readiness polling.
NextSupervisor ==
    (AppInit \/ RestartBackendService \/ WaitStep)
    /\ UNCHANGED <<raceVars, gitVars, installVars, frontVars>>

SpecSupervisor == Init /\ [][NextSupervisor]_vars

\* The supervisor together with the ways the launcher process ends.
NextLifecycle ==
    (AppInit \/ RestartBackendService \/ WaitStep
        \/ Quit \/ RestartApplication \/ RestartLauncher
        \/ InitFailed \/ UncaughtException)
    /\ UNCHANGED <<raceVars, gitVars, installVars, frontVars>>

SpecLifecycle == Init /\ [][NextLifecycle]_vars

\* waitForBackendReady called with every maxRetries and interval.
NextWait ==
    (CallWaitForBackendReady \/ WaitStep)
    /\ UNCHANGED <<raceVars, gitVars, installVars, frontVars>>

InitWaiting == InitGit /\ InitRace /\ InitInstall /\ InitFront /\ InitWait
SpecWait == InitWaiting /\ [][NextWait]_vars

(* ======================================================================= *)
(* Claims about the version controller and its cache (specification Spec)  *)
(* ======================================================================= *)

\* A step taken by a handler (the clock stands still while one runs).
CommitsStep == now' = now /\ call'.op = "commits"
SwitchStep == now' = now /\ call'.op = "switch"
CurrentStep == now' = now /\ call'.op = "current"

Succeeded(c) == c.result.status = "success"

\* A revision record names the identifier by its full or abbreviated hash.
Matches(rec, id) == id \in {rec.commit_hash, rec.commit_short}

\* Revisions in the local history from the start (the store only grows).
InitialRevs == 1..(NumRevs - 1)

\* C1 as stated: for every identifier present in the history, a switchTo(id)
\* that returns, followed by getCurrentRevision(), yields a successful
\* revision record whose id matches id.
C1_AsStated ==
    [][(call.op = "switch" /\ call.id.rev \in InitialRevs /\ CurrentStep)
        => (Succeeded(call') /\ Matches(call'.result, call.id))]_vars

\* C1 amended: a switchTo(id) that returns status success leaves the working
\* tree at id, and a getCurrentRevision() that follows it and succeeds
\* yields a revision record whose id matches id.
C1_SwitchThenCurrent ==
    [][/\ (SwitchStep /\ Succeeded(call')) => head' = call'.id.rev
       /\ (call.op = "switch" /\ Succeeded(call) /\ CurrentStep
              /\ Succeeded(call'))
          => Matches(call'.result, call.id)]_vars

C1_Witness ==
    /\ call.op = "current"
    /\ Succeeded(call)
    /\ head = NumRevs
    /\ call.result.commit_hash = FullHash(NumRevs)

C3_SecondCallIsCacheHit ==
    [][(/\ call.op = "commits" /\ ~call.force
        /\ CommitsStep /\ ~call'.force
        /\ gitCommitsCache # Null
        /\ now - gitCacheTimestamp < gitCacheTimeout)
        => /\ queries' = queries
           /\ ~call'.queried
           /\ call'.result = gitCommitsCache
           /\ gitCommitsCache' = gitCommitsCache
           /\ (IF call.queried THEN 1 ELSE 0) + (queries' - queries) <= 1]_vars

C3_Witness ==
    /\ call.op = "commits"
    /\ ~call.force
    /\ ~call.queried
    /\ call.result = gitCommitsCache
    /\ now - gitCacheTimestamp = TickMs

\* C4: getHistory issues a fresh live query whenever it is called with
\* forceRefresh=true, and whenever it is the getHistory(forceRefresh=false)
\* that follows invalidate(), whatever the age of the cached entry.
C4_ForceOrInvalidateQueries ==
    [][(CommitsStep /\ (call'.force \/ call.op = "refresh"))
        => /\ call'.queried
           /\ queries' = queries + 1]_vars

C4_Witness ==
    /\ call.op = "commits"
    /\ call.force
    /\ call.queried
    /\ ~call.failed
    /\ call.result.captured > 1
    /\ now = StartTime

\* C5: a getHistory call returns the stored cache value only if (a)
\* forceRefresh is false, an entry is present and now - captured_at < ttl,
\* or (b) the live query of that same call failed.
C5_StoredValueOnlyIfValidOrFailed ==
    [][(/\ CommitsStep
        /\ gitCommitsCache # Null
        /\ Succeeded(call')
        /\ call'.result.captured = gitCommitsCache.captured)
        => \/ /\ ~call'.force
              /\ now - gitCacheTimestamp < gitCacheTimeout
           \/ call'.failed]_vars

C5_Witness ==
    /\ call.op = "commits"
    /\ call.failed
    /\ Succeeded(call)
    /\ gitCommitsCache # Null
    /\ call.result.captured = gitCommitsCache.captured
    /\ now - gitCacheTimestamp >= gitCacheTimeout

\* C6: when the live query of getHistory fails, a cached value (expired or
\* not) is returned annotated as stale and the stored entry and its
\* timestamp stay as they were; without a cached value the call returns an
\* error result with an empty history; either way it returns a result.
C6_DegradedRead ==
    [][(CommitsStep /\ call'.failed)
        => /\ call'.result.status \in {"success", "error"}
           /\ gitCommitsCache' = gitCommitsCache
           /\ gitCacheTimestamp' = gitCacheTimestamp
           /\ IF gitCommitsCache # Null
              THEN /\ {"cached", "warning"} \subseteq DOMAIN call'.result
                   /\ call'.result.cached
                   /\ \A k \in DOMAIN gitCommitsCache \ {"cached"} :
                          /\ k \in DOMAIN call'.result
                          /\ call'.result[k] = gitCommitsCache[k]
              ELSE /\ call'.result.status = "error"
                   /\ call'.result.commits = <<>>]_vars

C6_Witness ==
    /\ call.op = "commits"
    /\ call.force
    /\ call.failed
    /\ Succeeded(call)
    /\ call.result.cached
    /\ now - gitCacheTimestamp < gitCacheTimeout

\* C7: after a switchTo that returns success the cache is empty (value
\* cleared, timestamp reset), the getHistory(forceRefresh=false) that
\* follows issues a fresh query, and no history returned or stored later
\* was captured before the switch.
C7_SwitchInvalidates ==
    [][/\ (SwitchStep /\ Succeeded(call'))
          => (gitCommitsCache' = Null /\ gitCacheTimestamp' = 0)
       /\ (call.op = "switch" /\ Succeeded(call) /\ CommitsStep
              /\ ~call'.force)
          => (call'.queried /\ queries' = queries + 1)
       /\ (call'.op = "commits" /\ Succeeded(call'))
          => call'.result.captured > switchMark'
       /\ gitCommitsCache' # Null
          => gitCommitsCache'.captured > switchMark']_vars

C7_Witness ==
    /\ call.op = "commits"
    /\ ~call.force
    /\ Succeeded(call)
    /\ switchMark > 0
    /\ call.result.captured = switchMark + 1

(* ------------------------- C8: the current marker ---------------------- *)

\* Entries marked current in a list.
Marked(list, flag(_)) == {i \in DOMAIN list : flag(list[i])}

\* gitGetCommits: a successful result marks exactly one entry, the one of
\* the revision checked out.
CommitsMarkHead ==
    (call.op = "commits" /\ call.result.status = "success") =>
        LET m == Marked(call.result.commits, LAMBDA e : e.is_current)
        IN /\ Cardinality(m) = 1
           /\ \A i \in m : call.result.commits[i].commit = ShortHash(head)

\* fetchVersionData: the processed data marks exactly one entry, and that
\* entry is the reported current commit.
VersionsMarkCurrent ==
    (fcall.op = "fetch" /\ fcall.processed) =>
        LET d == fcall.result
            ms == Marked(d.stable, LAMBDA e : e.current)
            md == Marked(d.development, LAMBDA e : e.current)
        IN /\ Cardinality(ms) + Cardinality(md) = 1
           /\ \A i \in ms : IsCurrent(d.stable[i], d.current_commit)
           /\ \A i \in md : IsCurrent(d.development[i], d.current_commit)

\* C8: every successful history result has exactly one entry marked
\* current, the live current revision, a synthetic entry being injected
\* when no listed entry matches.
C8_AsStated == CommitsMarkHead /\ VersionsMarkCurrent

(* --------------------- C9: a package missing a file -------------------- *)

InstallStep == icall' # icall /\ icall'.op = "install"

\* C9: an install whose package lacks a required file fails with the
\* malformed-package error listing the missing files, and every live file
\* has the content it had before the call.
C9_AsStated ==
    [][(InstallStep /\ icall'.threw = "validate") =>
         /\ ~icall'.result.success
         /\ icall'.result.error.kind = "malformed"
         /\ icall'.result.error.missing = MissingFiles(icall'.pkg)
         /\ live' = icall'.liveBefore]_vars

(* ------------------- C10: rollback after a failed apply ---------------- *)

\* C10: when an install throws partway through the apply step and the
\* automatic rollback runs to completion, every file and directory
\* captured in the backup has its pre-install content.
C10_RollbackRestores ==
    [][(InstallStep /\ icall'.threw = "apply" /\ icall'.applied > 0
            /\ icall'.rollback = "done") =>
         \A it \in Items :
            icall'.captured[it] # 0 => live'[it] = icall'.liveBefore[it]]_vars

C10_Witness ==
    /\ icall.op = "install"
    /\ icall.threw = "apply"
    /\ icall.applied > 1
    /\ icall.rollback = "done"
    /\ ~icall.result.success
    /\ \A it \in Items : icall.captured[it] # 0 => live[it] = icall.liveBefore[it]
    /\ live["backend"] = icall.liveBefore["backend"]

(* ------------------ C11: validation before any live write -------------- *)

\* Positions of log at which a live entry is written or removed.
LiveWrites(log) == {i \in DOMAIN log : log[i].target = "live"}

\* Every live write of the try block follows the successful validation.
ApplyAfterValidation ==
    icall.op = "install" =>
        \A i \in LiveWrites(icall.log) :
            (\A k \in 1..i : icall.log[k].op # "catch") =>
                \E j \in 1..(i - 1) : icall.log[j].op = "validated"

\* C11: in every install no live file or directory is written or removed
\* before validation has confirmed the required files, and extraction
\* writes only into the temporary directory.
C11_AsStated ==
    icall.op = "install" =>
        /\ \A i \in LiveWrites(icall.log) :
              \E j \in 1..(i - 1) : icall.log[j].op = "validated"
        /\ \A i \in DOMAIN icall.log :
              icall.log[i].op = "extractAllTo" => icall.log[i].target = "temp"

(* --------------------- C12: a backup per attempt ----------------------- *)

\* The attempt took a snapshot of the live files first and made it the
\* last-backup reference: every event before the reference is set acts on
\* the backup directory, every other event follows it.
BackupTakenFirst ==
    /\ icall'.captured = icall'.liveBefore
    /\ icall'.backupTried.set
    /\ icall'.backupTried.attempt = icall'.attempt
    /\ icall'.backupTried # lastBackup
    /\ lastBackup'.set /\ lastBackup'.attempt = icall'.attempt
    /\ \E k \in DOMAIN icall'.log :
          /\ icall'.log[k].op = "lastBackupDir"
          /\ \A i \in DOMAIN icall'.log :
                (i < k) <=> (icall'.log[i].target = "backup"
                              /\ icall'.log[i].op \in {"ensureDir", "copy"})

C13_RollbackFrame ==
    [][InstallStep =>
         /\ icall'.rollback = "done" =>
               /\ \A it \in Items :
                     live'[it] = IF icall'.backupTried.tree[it] # 0
                                 THEN icall'.backupTried.tree[it]
                                 ELSE icall'.liveTried[it]
               /\ ~lastBackup'.exists
         /\ icall'.rollback = "missing" =>
               /\ ~icall'.backupTried.exists
               /\ live' = icall'.liveTried]_vars

C13_Witness ==
    /\ icall.op = "install"
    /\ icall.rollback = "done"
    /\ icall.backupTried.tree["assets"] = 0
    /\ icall.liveTried["assets"] # 0
    /\ live["assets"] = icall.liveTried["assets"]
    /\ icall.liveTried["main.js"] # icall.backupTried.tree["main.js"]
    /\ live["main.js"] = icall.backupTried.tree["main.js"]
    /\ ~lastBackup.exists

\* A rollback found the directory of its reference gone.
RollbackMissingReached ==
    icall.op = "install" /\ icall.rollback = "missing"

(* ------------------- C14: the error of a failed rollback --------------- *)

\* The failures the result of an install names.
FailuresNamed(result) == {result.error.kind} \ {"none"}

\* C14: when the install fails and the automatic rollback fails too, the
\* result names both the install failure and the rollback failure.
C14_AsStated ==
    [][(InstallStep /\ icall'.rollback \in {"failed", "missing"}) =>
         /\ ~icall'.result.success
         /\ FailuresNamed(icall'.result) \ {"rollback"} # {}
         /\ "rollback" \in FailuresNamed(icall'.result)]_vars

(* ======================================================================= *)
(* Claims about the supervisor (specifications SpecWait, SpecSupervisor)    *)
(* ======================================================================= *)

\* The answer to the request of task k arrives in this step.
ProbeStepOf(k) ==
    /\ k \in DOMAIN tasks
    /\ tasks[k].pc = "probing"
    /\ tasks'[k] # tasks[k]
    /\ scall'.op = "probe" /\ scall'.task = k

\* C15: a readiness wait whose probes never succeed ends with the timeout
\* error after exactly maxRetries probes, each after the first sent when a
\* timer of at least interval has elapsed, and the timeout leaves the
\* backend process unsignalled and referenced.
C15_TimeoutAfterMaxAttempts ==
    [][\A k \in DOMAIN tasks :
         (ProbeStepOf(k) /\ scall'.outcome # "ok") =>
            /\ (tasks[k].probes = tasks[k].maxRetries) <=>
                   (tasks'[k].pc = "done"
                    /\ tasks'[k].result = "backend_timeout")
            /\ tasks[k].probes < tasks[k].maxRetries =>
                   tasks'[k].pc = "sleeping"
            /\ tasks[k].probes <= tasks[k].maxRetries
            /\ tasks'[k].probes = tasks[k].probes
            /\ tasks[k].gapOk
            /\ signalled' = signalled
            /\ backendProcess' = backendProcess]_vars

C15_Witness ==
    \E k \in DOMAIN tasks :
        /\ tasks[k].kind = "wait"
        /\ tasks[k].maxRetries = 3
        /\ tasks[k].pc = "done"
        /\ tasks[k].result = "backend_timeout"
        /\ tasks[k].probes = 3
        /\ tasks[k].gapOk
        /\ backendProcess = 1
        /\ backendProcess \notin signalled

\* For a positive maxRetries the wait reports ready exactly when a probe was
\* answered with success.
ReadyIffAnsweredPositive ==
    \A k \in DOMAIN tasks :
        (tasks[k].pc = "done" /\ 0 < tasks[k].maxRetries) =>
            ((tasks[k].result = "ready") <=> tasks[k].answered)

\* C16: the wait reports ready exactly when one of its first maxRetries
\* probes was answered with success, stops probing at that answer, and
\* never reports ready without a successful probe, whatever maxRetries is,
\* 0 included.
C16_AsStated ==
    \A k \in DOMAIN tasks :
        /\ tasks[k].pc = "done" =>
              ((tasks[k].result = "ready") <=> tasks[k].answered)
        /\ tasks[k].answered => tasks[k].pc = "done"
        /\ tasks[k].probes <= tasks[k].maxRetries

\* A step of restartBackendService or of init.
RestartStep == Len(tasks') = Len(tasks) + 1 /\ scall'.op = "restart"
StartStep ==
    Len(tasks') = Len(tasks) + 1 /\ scall'.op \in {"init", "restart"}

\* Position of step name in the steps of the last supervisor call, 0 if
\* it was not taken.
StepAt(steps, name) ==
    IF \E i \in DOMAIN steps : steps[i] = name
    THEN CHOOSE i \in DOMAIN steps : steps[i] = name
    ELSE 0

StartErrors == {"runtime_not_found", "script_not_found"}

\* C17: a restart stops, then starts, then waits: the old process is sent
\* its termination signal and the handle is discarded before the new
\* process is spawned; when the new start or the readiness wait fails the
\* failure is the restart's outcome and the old process is not restored.
C17_RestartOrder ==
    [][/\ RestartStep =>
            LET st == scall'.steps
                new == tasks'[Len(tasks')]
            IN /\ backendProcess # 0 =>
                     /\ backendProcess \in signalled'
                     /\ backendProcess' # backendProcess
                     /\ StepAt(st, "kill") = 1 /\ StepAt(st, "discard") = 2
               /\ StepAt(st, "spawn") # 0 =>
                     /\ StepAt(st, "discard") < StepAt(st, "spawn")
                     /\ StepAt(st, "spawn") < StepAt(st, "probe")
                     /\ backendProcess' = spawned' /\ spawned' = spawned + 1
                     /\ new.pc = "probing"
               /\ StepAt(st, "spawn") = 0 =>
                     /\ new.pc = "done" /\ new.result \in StartErrors
                     /\ backendProcess' = 0
                     /\ spawned' = spawned
               /\ signalled \subseteq signalled'
       /\ \A k \in DOMAIN tasks :
            (ProbeStepOf(k) /\ tasks[k].kind = "restart"
                 /\ tasks'[k].result = "backend_timeout") =>
               /\ signalled' = signalled
               /\ backendProcess' = backendProcess]_vars

C17_Witness ==
    /\ scall.op = "restart"
    /\ scall.steps = <<"kill", "discard", "find", "script", "spawn", "probe">>
    /\ 1 \in signalled
    /\ backendProcess = 2
    /\ spawned = 2
    /\ tasks[Len(tasks)].kind = "restart"
    /\ tasks[Len(tasks)].pc = "probing"

\* A restart whose readiness wait timed out: the old process stays
\* signalled, the handle refers to the new one.
RestartTimedOutReached ==
    \E k \in DOMAIN tasks :
        /\ tasks[k].kind = "restart"
        /\ tasks[k].result = "backend_timeout"
        /\ 1 \in signalled /\ backendProcess = 2

\* C18: a start spawns a process only when an interpreter was located and
\* the backend script exists; it fails with the runtime error when no
\* candidate resolves (the bundled candidates being tried before the system
\* ones) and with the script error when the script is absent, and then
\* spawns nothing and leaves the handle as it found it.
C18_StartPreconditions ==
    [][StartStep =>
         LET env == scall'.env
             py == scall'.python
             new == tasks'[Len(tasks')]
             bundled == {i \in DOMAIN candidates : candidates[i] \in env.exists}
             system == {i \in DOMAIN systemPythons : systemPythons[i] \in env.runs}
             handle == IF scall'.op = "restart" THEN 0 ELSE backendProcess
         IN /\ bundled # {} =>
                  \E i \in bundled : py = candidates[i] /\ \A j \in bundled : i <= j
            /\ (bundled = {} /\ system # {}) =>
                  \E i \in system : py = systemPythons[i] /\ \A j \in system : i <= j
            /\ (bundled = {} /\ system = {}) =>
                  /\ py = NoPython
                  /\ new.result = "runtime_not_found"
            /\ (py # NoPython /\ ~env.script) => new.result = "script_not_found"
            /\ (spawned' # spawned) <=> (py # NoPython /\ env.script)
            /\ spawned' = spawned =>
                  /\ new.pc = "done" /\ new.result \in StartErrors
                  /\ backendProcess' = handle
            /\ spawned' # spawned =>
                  /\ spawned' = spawned + 1 /\ backendProcess' = spawned'
                  /\ new.result = "pending"]_vars

C18_Witness ==
    /\ scall.op = "restart"
    /\ scall.env.exists = {"venv/bin/python", "python/python.exe"}
    /\ scall.env.runs = {"python", "python3"}
    /\ ~scall.env.script
    /\ scall.python = "venv/bin/python"
    /\ scall.outcome = "script_not_found"
    /\ spawned = 1
    /\ backendProcess = 0

(* --------------- C19: best-effort and required commands ---------------- *)

\* The recorded outcome of command name in the last switch: "ok", "failed"
\* or "skipped" (the switch ended before it).
StepOutcome(name) ==
    IF \E i \in DOMAIN call.steps : call.steps[i].step = name
    THEN (IF \A i \in DOMAIN call.steps :
                call.steps[i].step = name => call.steps[i].ok
          THEN "ok" ELSE "failed")
    ELSE "skipped"

\* C19: a failed clean, fetch or repair hook is logged and the switch goes
\* on to a success result when the checkout succeeds; a failed checkout
\* ends the switch with an error result; every switch returns a result.
C19_BestEffortSteps ==
    call.op = "switch" =>
        /\ call.result.status \in {"success", "error"}
        /\ StepOutcome("clean") # "skipped"
        /\ StepOutcome("fetch") # "skipped"
        /\ StepOutcome("checkout") # "skipped"
        /\ StepOutcome("checkout") = "ok" =>
              /\ call.result.status = "success"
              /\ StepOutcome("fix") # "skipped"
              /\ StepOutcome("invalidate") = "ok"
              /\ head = call.id.rev
        /\ StepOutcome("checkout") = "failed" =>
              /\ call.result.status = "error"
              /\ call.result.message.kind \in {"unknown_revision", "switch_failed"}
              /\ StepOutcome("fix") = "skipped"

C19_Witness ==
    /\ call.op = "switch"
    /\ StepOutcome("clean") = "failed"
    /\ StepOutcome("fetch") = "failed"
    /\ StepOutcome("fix") = "failed"
    /\ StepOutcome("checkout") = "ok"
    /\ call.result.status = "success"
    /\ hookFile = "absent"

\* A switch ended by its checkout.
CheckoutFailedReached ==
    /\ call.op = "switch"
    /\ StepOutcome("checkout") = "failed"
    /\ StepOutcome("clean") = "failed"
    /\ call.result.status = "error"

(* ------------------ C20: the shape of returned results ----------------- *)

\* A result that carries a status of success or error and a message.
HasStatusAndMessage(r) ==
    /\ "status" \in DOMAIN r
    /\ r.status \in {"success", "error"}
    /\ "message" \in DOMAIN r

\* The git handlers always return a status of success or error, and every
\* error result, the cache-cleared result and every switch result carry a
\* message; the successful queries carry their data and no message.
GitResultsCarryStatus ==
    call.op # "none" =>
        /\ "status" \in DOMAIN call.result
        /\ call.result.status \in {"success", "error"}
        /\ (call.result.status = "error" \/ call.op \in {"refresh", "switch"})
              => "message" \in DOMAIN call.result

\* C20: the result of every public operation (current revision, history,
\* switch, clear cache, install update) carries a status of success or
\* error together with a message, on every outcome.
C20_AsStated ==
    /\ call.op # "none" => HasStatusAndMessage(call.result)
    /\ icall.op = "install" => HasStatusAndMessage(icall.result)

(* ----------------------- C21: the package layouts ---------------------- *)

\* The directory holding the payload of a package in one of the two
\* layouts: the archive root, or the archive's single subdirectory when the
\* root holds no file.
NestedDirs(pkg) == {d \in {pkg.launcher, pkg.other} : d.present}
Payload(pkg) ==
    IF pkg.root # {} \/ Cardinality(NestedDirs(pkg)) # 1 THEN pkg.root
    ELSE (CHOOSE d \in NestedDirs(pkg) : TRUE).files
WellFormed(pkg) == Range(keyFiles) \subseteq Payload(pkg)

\* An install that returned from its try block wrote the files of the
\* source root it validated, and no other.
AppliedFromValidatedRoot ==
    [][(InstallStep /\ icall'.threw = "none") =>
         /\ MissingFiles(icall'.pkg) = <<>>
         /\ \A it \in Items :
               live'[it] = IF it \in SourceFiles(icall'.pkg)
                           THEN icall'.attempt + 1
                           ELSE icall'.liveBefore[it]]_vars

\* A package with its payload in the launcher subdirectory installed.
LauncherLayoutInstalled ==
    /\ icall.op = "install"
    /\ icall.pkg.launcher.present
    /\ icall.result.success
    /\ live["main.js"] = icall.attempt + 1

\* C21: a package whose required files are at the archive root and a
\* package whose required files are inside a single nested directory both
\* pass validation, and the files applied come from the validated root.
C21_AsStated ==
    [][(InstallStep /\ WellFormed(icall'.pkg)) =>
         /\ icall'.threw # "validate"
         /\ icall'.threw = "none" =>
               \A it \in Payload(icall'.pkg) : live'[it] = icall'.attempt + 1]_vars

(* ======================================================================= *)
(* Claims about the steps of a switch (specification SpecSwitch)           *)
(* ======================================================================= *)

(* -------------------- C22: the repair hook is idempotent --------------- *)

\* The hook file as the repair hook of the step's switch found it: git
\* clean has removed it when it succeeded.
HookFound == IF StepOutcome("clean")' = "ok" THEN "absent" ELSE hookFile

\* C22: after the repair hook has run without a write failure the
\* companion file exists; a file that existed keeps its content; running
\* the hook again leaves the same state.
C22_HookIdempotent ==
    [][(call'.op = "switch" /\ StepOutcome("fix")' = "ok") =>
         /\ hookFile' # "absent"
         /\ HookFound # "absent" => hookFile' = HookFound
         /\ \A writeOk \in BOOLEAN :
               PostVersionSwitchFix(hookFile', writeOk) = hookFile']_vars

\* The hook has regenerated the file in one switch and found its own
\* template in the next.
C22_Witness ==
    /\ call.op = "switch"
    /\ StepOutcome("fix") = "ok"
    /\ StepOutcome("clean") = "failed"
    /\ hookFile = "template"

\* The hook has left the original file alone.
HookKeptOriginalReached ==
    /\ call.op = "switch"
    /\ StepOutcome("fix") = "ok"
    /\ hookFile = "original"

(* ---------------------- C23: the order of the steps -------------------- *)

StepNames(steps) == [i \in DOMAIN steps |-> steps[i].step]

\* The commands of a switch in the order of the code.
SwitchOrder ==
    <<"current", "reset", "clean", "fetch", "checkout",
      "fix", "invalidate", "current">>

\* C23: every switch runs record-current-revision, hard reset, clean,
\* fetch, checkout, repair hook, cache invalidation, re-query in this
\* order; when the checkout fails it runs none of the last three.
C23_StepOrder ==
    call.op = "switch" =>
        LET names == StepNames(call.steps)
            checkedOut == call.steps[5].ok
        IN /\ Len(names) >= 5
           /\ names = SubSeq(SwitchOrder, 1, Len(names))
           /\ Len(names) = IF checkedOut THEN 8 ELSE 5
           /\ ~checkedOut => call.result.status = "error"

\* A switch ended by its checkout after the four commands before it.
C23_Witness ==
    /\ call.op = "switch"
    /\ StepNames(call.steps) = SubSeq(SwitchOrder, 1, 5)
    /\ ~call.steps[5].ok
    /\ call.steps[4].ok
    /\ head # call.id.rev

\* A switch that ran all eight commands.
FullOrderReached ==
    /\ call.op = "switch"
    /\ StepNames(call.steps) = SwitchOrder
    /\ head = call.id.rev

(* ------------------- C24: the backup a rollback restores --------------- *)

\* C24: an automatic rollback restores from the snapshot created by the
\* same install attempt, never from one taken by an earlier attempt.
C24_AsStated ==
    [][(InstallStep /\ icall'.rollback \in {"done", "failed"}) =>
         icall'.restoredFrom = icall'.attempt]_vars

\* An install whose backup step threw has rolled the live files back to
\* the snapshot of the attempt before it.
StaleRollbackReached ==
    /\ icall.op = "install"
    /\ icall.threw = "backup"
    /\ icall.rollback = "done"
    /\ icall.restoredFrom = icall.attempt - 1
    /\ live # icall.liveBefore

(* ======================================================================= *)
(* Claims about the launcher's exit (specification SpecLifecycle)          *)
(* ======================================================================= *)

(* ----------------- C25: the backend is stopped on exit ----------------- *)

\* The referenced backend, if any, has been sent a termination signal.
BackendStopped == backendProcess # 0 => backendProcess \in signalled

\* quit() and restartApplication() signal the referenced backend.
QuitStopsBackend ==
    (app = "exited" /\ scall.op \in {"quit", "restartApplication"})
        => BackendStopped

QuitStoppedReached ==
    /\ app = "exited"
    /\ scall.op = "quit"
    /\ backendProcess # 0
    /\ backendProcess \in signalled

\* C25: on every path by which the launcher exits or relaunches, the owned
\* backend process has been sent a termination signal before the exit.
C25_AsStated == app = "exited" => BackendStopped

(* ======================================================================= *)
(* Claims about a switch racing a history query (specification SpecRace)   *)
(* ======================================================================= *)

(* ----------------- C26: switch against forced history ------------------ *)

\* The cache holds a history captured before the last successful checkout.
StaleCache ==
    /\ gitCommitsCache # Null
    /\ gitCommitsCache.captured <= switchMark

\* A switch has returned success and the cache holds a history captured
\* before its checkout.
StaleAfterSwitch ==
    /\ call.op = "switch"
    /\ call.result.status = "success"
    /\ pending.pc \in {"idle", "commands"}
    /\ StaleCache

\* From the clearing of the cache in a switch to the next checkout, the
\* cache is empty or holds a history captured after the checkout, whose
\* current marker is the revision checked out; so no state is reached in
\* which a switch has returned success and the cache holds a history
\* captured before its checkout.
C26_NoStaleCacheAfterSwitch ==
    /\ pending.pc # "invalidate" =>
          /\ ~StaleCache
          /\ gitCommitsCache # Null =>
                gitCommitsCache.current_commit = ShortHash(head)
    /\ ~StaleAfterSwitch

\* A forced history query ran while a switch was suspended before its
\* checkout; the checkout has run and the cache still holds that history.
RacedBeforeCheckout ==
    /\ pending.pc = "invalidate"
    /\ call.op = "commits"
    /\ call.force
    /\ StaleCache

C26_Witness ==
    /\ RacedBeforeCheckout
    /\ gitCommitsCache.current_commit # ShortHash(head)

\* C26: the interleaving of a switch with a forced history query is
\* unguarded: once the query has stored a history captured before the
\* checkout of the suspended switch, the switch goes on to return success
\* with the cache still holding that history.
C26_AsStated == RacedBeforeCheckout ~> StaleAfterSwitch

(* --------------- C27: success exactly when checkout succeeds ----------- *)

\* C27: a switch returns status success exactly when its checkout
\* succeeded; a failed hard reset or current-revision query (before or
\* after the switch) leaves the status alone and shows only in the
\* payload, so a success result may carry an error record as new_version.
C27_SuccessIffCheckout ==
    call.op = "switch" =>
        LET checkedOut == call.steps[5].ok
            r == call.result
        IN /\ Len(call.steps) >= 5
           /\ call.steps[5].step = "checkout"
           /\ (r.status = "success") <=> checkedOut
           /\ r.status \in {"success", "error"}
           /\ r.status = "success" =>
                 /\ Len(call.steps) = 8
                 /\ r.old_version.status =
                       (IF call.steps[1].ok THEN "success" ELSE "error")
                 /\ r.new_version =
                       gitGetCurrentCommit(head, call.steps[8].ok)

\* A success result whose new_version is an error record, after a failed
\* reset and a failed first query.
C27_Witness ==
    /\ call.op = "switch"
    /\ call.result.status = "success"
    /\ call.result.new_version.status = "error"
    /\ call.result.old_version.status = "error"
    /\ StepOutcome("reset") = "failed"
    /\ head = call.id.rev

(* ======================================================================= *)
(* Claims about process ownership (specification SpecSupervisor)           *)
(* ======================================================================= *)

(* --------------------- C28: one owned backend process ------------------ *)

\* The spawned processes that were not sent a termination signal.
Unsignalled == (1..spawned) \ signalled

\* C28: under any interleaving of the initial start and restart commands,
\* every spawned process not yet sent a termination signal is the one the
\* handle refers to: there is at most one, and a restart leaves no earlier
\* process running unreferenced.
C28_SingleOwnedProcess ==
    /\ Unsignalled \subseteq {backendProcess}
    /\ Cardinality(Unsignalled) <= 1
    /\ backendProcess \in 0..spawned

\* A restart has replaced the backend while the wait of init() and its own
\* wait are both still polling.
C28_Witness ==
    /\ Len(tasks) >= 2
    /\ tasks[1].kind = "init" /\ tasks[1].pc # "done"
    /\ tasks[2].kind = "restart" /\ tasks[2].pc # "done"
    /\ spawned = 2
    /\ backendProcess = 2
    /\ signalled = {1}

(* ======================================================================= *)
(* Further claims about the installer (specification SpecInstall)          *)
(* ======================================================================= *)

(* ------------------- C29: the temporary directory ---------------------- *)

\* An install that succeeds has removed temp_extract and the archive.
SuccessCleansUp ==
    [][(InstallStep /\ icall'.result.success) =>
         (~tempExtract' /\ icall'.zipRemoved)]_vars

SuccessCleanedUpReached ==
    /\ icall.op = "install"
    /\ icall.result.success
    /\ ~tempExtract
    /\ icall.zipRemoved

\* C29: after an install returns, with success or with failure, the
\* temporary extraction directory no longer exists; the archive is removed
\* on success.
C29_AsStated ==
    [][InstallStep =>
         /\ ~tempExtract'
         /\ icall'.result.success => icall'.zipRemoved]_vars

\* A failed install has left temp_extract behind.
TempLeftBehindReached ==
    /\ icall.op = "install"
    /\ icall.threw = "validate"
    /\ icall.rollback = "done"
    /\ tempExtract

(* ======================================================================= *)
(* Further claims about the front end (specification SpecFront)            *)
(* ======================================================================= *)

(* --------------------- C30: the front end's cache ---------------------- *)

FetchStep == fcall' # fcall /\ fcall'.op = "fetch"

\* Less than five minutes have passed since the cached data was fetched.
WithinCacheDuration ==
    /\ versionCache # Null
    /\ clock < versionCache.last_updated + cacheDuration

\* C30: fetchVersionData sends a request when nothing is cached yet or
\* forceRefresh is set; otherwise, within five minutes of the last
\* successful fetch, it returns the cached data without a request; a
\* successful version switch clears the cache, so the data cached before
\* it is not kept.
C30_FetchCache ==
    [][/\ FetchStep =>
            /\ (fcall'.force \/ versionCache = Null) => fcall'.fetched
            /\ (~fcall'.force /\ WithinCacheDuration) =>
                  /\ ~fcall'.fetched
                  /\ fcall'.result = versionCache
                  /\ UNCHANGED <<versionCache, versionCacheExpiry>>
       /\ (fcall' # fcall /\ fcall'.op = "switch") =>
            /\ fcall'.fetched
            /\ IF fcall'.processed
               THEN versionCache' = fcall'.result
                    /\ versionCache'.last_updated = clock
               ELSE versionCache' = Null /\ versionCacheExpiry' = 0]_vars

\* A successful switch whose refresh failed has left the cache, filled
\* before, empty.
C30_Witness ==
    /\ fcall.op = "switch"
    /\ fcall.hadCache
    /\ fcall.fetched
    /\ ~fcall.processed
    /\ versionCache = Null

\* A fetch within five minutes was answered from the cache.
CacheHitReached ==
    /\ fcall.op = "fetch"
    /\ ~fcall.force
    /\ fcall.hadCache
    /\ ~fcall.fetched
    /\ fcall.result = versionCache
    /\ clock > versionCache.last_updated

\* A fetch five minutes or more after the last one went to the backend.
ExpiredFetchReached ==
    /\ fcall.op = "fetch"
    /\ ~fcall.force
    /\ fcall.hadCache
    /\ fcall.fetched

====
